---- MODULE Spec2Model ----
(***************************************************************************)
(* Model of the image-edit command line tool (the second `main` package    *)
(* held in src/main_test.go, lines 404-709): flag validation, credential   *)
(* fetch, multipart body construction, one HTTP POST, response decoding    *)
(* and the write of the output file.                                       *)
(*                                                                         *)
(* Strings the program takes apart (paths, base64 text) are sequences of   *)
(* characters; strings it only passes through are TLA+ strings.            *)
(***************************************************************************)
EXTENDS Integers, Sequences, FiniteSets, TLC

VARIABLES
    pc,          \* position of main: the next step to run, or "exit"
    exitCode,    \* -1 while running, else the process exit code
    stderr,      \* diagnostics printed by fatalf, in order
    args,        \* the command line: how flag.Parse takes it (parse) and the
                 \* values given to -p, -i, -b, -s
    env,         \* TRUE iff the three AZURE_OPENAI_* variables are set
    prompt,      \* *prompt (flag -p, replaced by the file's content)
    inputImage,  \* *inputImage (flag -i), a path
    bgImage,     \* *bgImage (flag -b), a path
    size,        \* *size (flag -s)
    fileKind,    \* the file system: how each image path answers stat/open/read
    fileData,    \* the file system: the bytes of each readable image
    dirs,        \* the file system: the directories that exist
    disk,        \* the file system: contents of the output path (NoFile if absent)
    disk0,       \* history: disk as it was when the run started
    dirs0,       \* history: dirs as it was when the run started
    outputFile,  \* outputFile of main
    token,       \* token of main
    images,      \* images of main
    idx,         \* buildMultipartBody: index of the image being added
    parts,       \* buildMultipartBody: the parts written to the multipart writer
    openFiles,   \* input image files currently open
    request,     \* req of main
    sent,        \* the requests handed to client.Do, in order
    respBytes,   \* the response body as read
    result,      \* result of main (imageEditResponse)
    imageBytes,  \* imageBytes of main
    log,         \* the steps main has run, in order
    dpIn,        \* deriveOutputPath applied on its own: the input
    dpOut,       \* deriveOutputPath applied on its own: the output
    wpc,         \* waitForResponse: where its caller goroutine stands
    subscribed,  \* waitForResponse: the handler is registered with the session
    finalContent,\* waitForResponse: finalContent (guarded by mu)
    done,        \* waitForResponse: the done channel is closed
    errCh,       \* waitForResponse: the errors buffered in errCh (capacity 1)
    hpc,         \* the event-dispatch goroutine: ready, or blocked in errCh <-
    pending,     \* the error a blocked errCh <- is trying to send
    delivered,   \* history: the events the handler was called with, in order
    closes,      \* history: how many times close(done) was called
    stdout,      \* what the handler printed (the delta contents)
    sendOk,      \* session.Send returned a nil error
    selectAt,    \* history: the number of events delivered when select chose
    readAt,      \* history: the number of events delivered when finalContent was read
    ret          \* what waitForResponse returned

mainVars == <<pc, exitCode, stderr, args, env, prompt, inputImage, bgImage, size,
              fileKind, fileData, dirs, disk, disk0, dirs0, outputFile, token, images,
              idx, parts, openFiles, request, sent, respBytes, result, imageBytes,
              log>>
pathVars == <<dpIn, dpOut>>
waitVars == <<wpc, subscribed, finalContent, done, errCh, hpc, pending, delivered,
              closes, stdout, sendOk, selectAt, readAt, ret>>
vars == <<mainVars, pathVars, waitVars>>

(***************************************************************************)
(* Bounds of the model.                                                    *)
(***************************************************************************)
\* longest path deriveOutputPath is applied to on its own
MaxPathLen == 4
\* longest image payload (bytes) a response carries
MaxBytes == 2

----------------------------------------------------------------------------
(***************************************************************************)
(* path/filepath (Unix): Clean, Dir, Base, Ext, Join, and TrimSuffix.      *)
(***************************************************************************)
Slash == "/"
Dot == "."

\* all sequences over S of length at most n
SeqsUpTo(S, n) == UNION {[1..k -> S] : k \in 0..n}

\* s[from..to], empty when from > to
Slice(s, from, to) == IF from > to THEN <<>> ELSE SubSeq(s, from, to)

\* out with its trailing element removed back to the previous separator
\* (Clean's "can backtrack": out.w--, then down to dotdot or a '/')
RECURSIVE Backtrack(_, _, _)
Backtrack(out, w, dotdot) ==
    IF w > dotdot /\ out[w + 1] # Slash THEN Backtrack(out, w - 1, dotdot)
    ELSE Slice(out, 1, w)

\* index one past the path element that starts at r
RECURSIVE ElemEnd(_, _)
ElemEnd(path, r) ==
    IF r <= Len(path) /\ path[r] # Slash THEN ElemEnd(path, r + 1) ELSE r

\* the loop of filepath.Clean; r is 1-based, dotdot counts characters of out
RECURSIVE CleanLoop(_, _, _, _, _)
CleanLoop(path, r, out, dotdot, rooted) ==
    LET n == Len(path) IN
    IF r > n THEN out
    ELSE IF path[r] = Slash THEN CleanLoop(path, r + 1, out, dotdot, rooted)
    ELSE IF path[r] = Dot /\ (r = n \/ path[r + 1] = Slash)
         THEN CleanLoop(path, r + 1, out, dotdot, rooted)
    ELSE IF path[r] = Dot /\ path[r + 1] = Dot /\ (r + 1 = n \/ path[r + 2] = Slash)
         THEN IF Len(out) > dotdot
              THEN CleanLoop(path, r + 2, Backtrack(out, Len(out) - 1, dotdot),
                             dotdot, rooted)
              ELSE IF ~rooted
              THEN LET o2 == (IF Len(out) > 0 THEN Append(out, Slash) ELSE out)
                             \o <<Dot, Dot>>
                   IN CleanLoop(path, r + 2, o2, Len(o2), rooted)
              ELSE CleanLoop(path, r + 2, out, dotdot, rooted)
    ELSE LET o1 == IF (rooted /\ Len(out) # 1) \/ (~rooted /\ Len(out) # 0)
                   THEN Append(out, Slash) ELSE out
             e == ElemEnd(path, r)
         IN CleanLoop(path, e, o1 \o Slice(path, r, e - 1), dotdot, rooted)

\* filepath.Clean
Clean(path) ==
    IF path = <<>> THEN <<Dot>>
    ELSE LET rooted == path[1] = Slash
             out == IF rooted
                    THEN CleanLoop(path, 2, <<Slash>>, 1, TRUE)
                    ELSE CleanLoop(path, 1, <<>>, 0, FALSE)
         IN IF out = <<>> THEN <<Dot>> ELSE out

\* the largest i with path[i] = '/', 0 if there is none
RECURSIVE LastSlashFrom(_, _)
LastSlashFrom(path, i) ==
    IF i >= 1 /\ path[i] # Slash THEN LastSlashFrom(path, i - 1) ELSE i

LastSlash(path) == LastSlashFrom(path, Len(path))

\* filepath.Dir
Dir(path) == Clean(Slice(path, 1, LastSlash(path)))

\* path without its trailing separators
RECURSIVE StripTrailingSlashes(_)
StripTrailingSlashes(path) ==
    IF Len(path) > 0 /\ path[Len(path)] = Slash
    THEN StripTrailingSlashes(Slice(path, 1, Len(path) - 1))
    ELSE path

\* filepath.Base
Base(path) ==
    IF path = <<>> THEN <<Dot>>
    ELSE LET p == StripTrailingSlashes(path)
             q == Slice(p, LastSlash(p) + 1, Len(p))
         IN IF q = <<>> THEN <<Slash>> ELSE q

\* the loop of filepath.Ext, scanning down from i
RECURSIVE ExtFrom(_, _)
ExtFrom(path, i) ==
    IF i >= 1 /\ path[i] # Slash
    THEN IF path[i] = Dot THEN Slice(path, i, Len(path)) ELSE ExtFrom(path, i - 1)
    ELSE <<>>

\* filepath.Ext
Ext(path) == ExtFrom(path, Len(path))

HasSuffix(s, suffix) ==
    /\ Len(s) >= Len(suffix)
    /\ Slice(s, Len(s) - Len(suffix) + 1, Len(s)) = suffix

\* strings.TrimSuffix
TrimSuffix(s, suffix) ==
    IF HasSuffix(s, suffix) THEN Slice(s, 1, Len(s) - Len(suffix)) ELSE s

\* filepath.Join of two elements
Join(a, b) ==
    IF a # <<>> THEN Clean(a \o <<Slash>> \o b)
    ELSE IF b # <<>> THEN Clean(b)
    ELSE <<>>

\* the literal "_generated"
GeneratedSuffix == <<"_", "g", "e", "n", "e", "r", "a", "t", "e", "d">>

\* a plausible slip: the suffix appended after the extension
DeriveSuffixAfterExt(input) ==
    Join(Dir(input), Base(input) \o GeneratedSuffix)

\* deriveOutputPath
deriveOutputPath(input) ==
    LET dir == Dir(input)
        ext == Ext(input)
        name == TrimSuffix(Base(input), ext)
    IN Join(dir, name \o GeneratedSuffix \o ext)

----------------------------------------------------------------------------
(***************************************************************************)
(* encoding/base64, StdEncoding.  A character of base64 text is its index  *)
(* in the alphabet (0..63), the padding character '=', a line break        *)
(* ('\r' or '\n'), or a character outside the alphabet.                    *)
(***************************************************************************)
B64Pad == 64
B64NewLine == 65
B64Bad == 66

\* the first n bytes of the 24-bit value of a quantum of sextets
Quantum(dbuf, dlen) ==
    LET d == [i \in 1..4 |-> IF i <= Len(dbuf) THEN dbuf[i] ELSE 0]
        val == d[1] * 262144 + d[2] * 4096 + d[3] * 64 + d[4]
        b == <<(val \div 65536) % 256, (val \div 256) % 256, val % 256>>
    IN Slice(b, 1, dlen - 1)

\* the index of the first character at or after si that is no line break
RECURSIVE SkipNewLines(_, _)
SkipNewLines(src, si) ==
    IF si <= Len(src) /\ src[si] = B64NewLine THEN SkipNewLines(src, si + 1) ELSE si

\* Encoding.decodeQuantum: reads one quantum starting at src[si] (1-based);
\* dbuf holds the sextets gathered so far
RECURSIVE decodeQuantum(_, _, _)
decodeQuantum(src, si, dbuf) ==
    LET j == Len(dbuf)
        corrupt == [err |-> TRUE, si |-> si, out |-> <<>>]
    IN
    IF j = 4 THEN [err |-> FALSE, si |-> si, out |-> Quantum(dbuf, 4)]
    ELSE IF si > Len(src)
         THEN IF j = 0 THEN [err |-> FALSE, si |-> si, out |-> <<>>] ELSE corrupt
    ELSE IF src[si] < 64 THEN decodeQuantum(src, si + 1, Append(dbuf, src[si]))
    ELSE IF src[si] = B64NewLine THEN decodeQuantum(src, si + 1, dbuf)
    ELSE IF src[si] # B64Pad THEN corrupt
    ELSE IF j < 2 THEN corrupt
    ELSE LET s1 == IF j = 2 THEN SkipNewLines(src, si + 1) ELSE si + 1 IN
         IF j = 2 /\ (s1 > Len(src) \/ src[s1] # B64Pad) THEN corrupt
         ELSE LET s2 == SkipNewLines(src, IF j = 2 THEN s1 + 1 ELSE s1) IN
              [err |-> s2 <= Len(src), si |-> s2, out |-> Quantum(dbuf, j)]

\* the loop of Encoding.Decode
RECURSIVE DecodeLoop(_, _, _)
DecodeLoop(src, si, acc) ==
    IF si > Len(src) THEN [err |-> FALSE, bytes |-> acc]
    ELSE LET q == decodeQuantum(src, si, <<>>) IN
         IF q.err THEN [err |-> TRUE, bytes |-> acc \o q.out]
         ELSE DecodeLoop(src, q.si, acc \o q.out)

\* a plausible slip: a decoder that drops the last byte of the payload
DecodeDropsLastByte(s) ==
    LET r == DecodeLoop(s, 1, <<>>) IN
    [err |-> r.err, bytes |-> Slice(r.bytes, 1, Len(r.bytes) - 1)]

\* a plausible slip: a decoder that accepts corrupt input (the error ignored)
DecodeIgnoresError(s) ==
    [err |-> FALSE, bytes |-> DecodeLoop(s, 1, <<>>).bytes]

\* base64.StdEncoding.DecodeString
DecodeString(s) == DecodeLoop(s, 1, <<>>)

\* base64.StdEncoding.EncodeToString
RECURSIVE EncodeToString(_)
EncodeToString(b) ==
    IF Len(b) = 0 THEN <<>>
    ELSE IF Len(b) = 1
    THEN <<b[1] \div 4, (b[1] % 4) * 16, B64Pad, B64Pad>>
    ELSE IF Len(b) = 2
    THEN <<b[1] \div 4, (b[1] % 4) * 16 + b[2] \div 16, (b[2] % 16) * 4, B64Pad>>
    ELSE <<b[1] \div 4, (b[1] % 4) * 16 + b[2] \div 16,
           (b[2] % 16) * 4 + b[3] \div 64, b[3] % 64>>
         \o EncodeToString(Slice(b, 4, Len(b)))


----------------------------------------------------------------------------
(***************************************************************************)
(* The world of one run: the command line, the file system, the remote     *)
(* service.                                                                *)
(***************************************************************************)
\* the image paths a run can name: -i a/c.png, -b bg.jpg
FgPath == <<"a", "/", "c", ".", "p", "n", "g">>
BgPath == <<"b", "g", ".", "j", "p", "g">>
ImagePaths == {FgPath, BgPath}
NoArg == <<>>
NoPath == <<"<none>">>

\* how a path answers the system calls main makes on it:
\*   absent    stat: not exist
\*   ok        stat, open and read succeed
\*   staterr   stat fails with another error (permission, not a directory,
\*             name too long); open fails too
\*   noperm    stat succeeds, open fails
\*   readerr   stat and open succeed, read fails (a directory, an I/O error)
FileKinds == {"absent", "ok", "staterr", "noperm", "readerr"}

\* the bytes of the input images
ImageData(path) == IF path = FgPath THEN <<1, 2>> ELSE <<3>>

\* what -p can be: nothing, an inline prompt, a readable prompt file, a
\* prompt file that cannot be read
PromptArgs == {"", "make art", "prompts/ok.md", "prompts/unreadable.md"}
PromptIsFile(p) == p \in {"prompts/ok.md", "prompts/unreadable.md"}
PromptFileReadable(p) == p = "prompts/ok.md"
PromptFileContent(p) == "pop art style"

DefaultSize == "1024x1024"

\* how flag.Parse takes the command line: every flag known and valued, -h or
\* -help given, or a flag that is not defined or lacks its value
FlagParses == {"ok", "help", "bad"}

NoFile == <<-1>>
OldOutput == <<9>>
NoBytes == <<-1>>
NoError == [nil |-> TRUE, Message |-> "", Type |-> "", Code |-> ""]
NoResult == [Error |-> NoError, Data |-> <<>>]
NoRequest == [method |-> "", url |-> "", authorization |-> <<>>,
              contentType |-> <<>>, body |-> [boundary |-> "", parts |-> <<>>]]

DirExists(d) == d = <<Dot>> \/ d \in dirs

\* the sample of byte values image payloads are made of
ByteSample == {0, 77, 255}

\* the image payloads a response can carry
Payloads == SeqsUpTo(ByteSample, MaxBytes)

ReplaceAt(s, i, c) == [k \in 1..Len(s) |-> IF k = i THEN c ELSE s[k]]
InsertAt(s, i, c) == Slice(s, 1, i - 1) \o <<c>> \o Slice(s, i, Len(s))

\* base64 text that is not the encoding of a payload: an encoding with its
\* last character dropped, with a character outside the alphabet, with a
\* line break inside, with padding in the third place, with a character
\* after its end
Damaged(e) ==
    IF e = <<>> THEN {<<B64Bad>>, <<B64Pad>>, <<B64NewLine>>, <<0>>}
    ELSE {Slice(e, 1, Len(e) - 1), ReplaceAt(e, 1, B64Bad), InsertAt(e, 2, B64NewLine),
          ReplaceAt(e, 3, B64Pad), Append(e, 0)}

\* the values of b64_json a response can carry
B64Texts ==
    {EncodeToString(b) : b \in Payloads}
        \cup UNION {Damaged(EncodeToString(b)) : b \in Payloads}

\* JSON member values: a string, null, a number, or the member left out
JStr(v) == [t |-> "string", v |-> v]
JNull == [t |-> "null", v |-> ""]
JNum == [t |-> "number", v |-> ""]
JAbsent == [t |-> "absent", v |-> ""]
\* the same for b64_json, whose text is a sequence of base64 characters
JB64(x) == [t |-> "string", v |-> x]
JB64Absent == [t |-> "absent", v |-> <<>>]

\* the "error" member a response body can carry: left out, null, or an
\* object (empty, of strings, or with a null and a number among its members)
ErrorMember(t, m, ty, c) == [t |-> t, message |-> m, type |-> ty, code |-> c]
ErrorMembers ==
    { ErrorMember("absent", JAbsent, JAbsent, JAbsent),
      ErrorMember("null", JAbsent, JAbsent, JAbsent),
      ErrorMember("object", JAbsent, JAbsent, JAbsent),
      ErrorMember("object", JStr("quota exceeded"), JStr("invalid_request_error"),
                  JStr("429")),
      ErrorMember("object", JStr("blocked"), JNull, JNum) }

\* a second element of "data", never looked at by main
OtherElement == [b64_json |-> JB64(EncodeToString(<<7>>))]

\* the "data" member a response body can carry: left out, null, a number,
\* or an array of zero, one or two elements
DataMember(t, elems) == [t |-> t, elems |-> elems]
DataMembers ==
    { DataMember("absent", <<>>), DataMember("null", <<>>), DataMember("number", <<>>),
      DataMember("array", <<>>), DataMember("array", <<[b64_json |-> JB64Absent]>>) }
        \cup {DataMember("array", <<[b64_json |-> JB64(x)]>>) : x \in B64Texts}
        \cup {DataMember("array", <<[b64_json |-> JB64(x)], OtherElement>>) :
                 x \in B64Texts}

\* the response bodies the service can answer with: text that is no JSON,
\* the JSON value null, a JSON value of another kind, or a JSON object
Body(kind, e, d) == [kind |-> kind, error |-> e, data |-> d]
NoResponse ==
    Body("<unset>", ErrorMember("absent", JAbsent, JAbsent, JAbsent),
         DataMember("absent", <<>>))
ResponseBodies ==
    {Body(k, ErrorMember("absent", JAbsent, JAbsent, JAbsent), DataMember("absent", <<>>)) :
        k \in {"notjson", "null", "array"}}
        \cup {Body("object", e, d) : e \in ErrorMembers, d \in DataMembers}

----------------------------------------------------------------------------
(***************************************************************************)
(* encoding/json: Unmarshal into imageEditResponse.                        *)
(***************************************************************************)
\* a JSON member decoded into a Go string field: null and a missing member
\* leave the zero value
StringField(j) == IF j.t = "string" THEN j.v ELSE ""

\* a JSON member decoded into the B64JSON field
B64Field(j) == IF j.t = "string" THEN j.v ELSE <<>>

\* whether every string field of the body holds a string, null or nothing
WellTyped(body) ==
    /\ body.kind \in {"null", "object"}
    /\ body.kind = "object" =>
        /\ body.data.t # "number"
        /\ body.error.t = "object" =>
              \A f \in {body.error.message, body.error.type, body.error.code} :
                  f.t # "number"

\* the imageEditResponse json.Unmarshal fills from a well-typed body
Decoded(body) ==
    IF body.kind = "null" THEN NoResult
    ELSE [ Error |-> IF body.error.t = "object"
                     THEN [nil |-> FALSE,
                           Message |-> StringField(body.error.message),
                           Type |-> StringField(body.error.type),
                           Code |-> StringField(body.error.code)]
                     ELSE NoError,
           Data |-> IF body.data.t = "array"
                    THEN [i \in 1..Len(body.data.elems) |->
                             [B64JSON |-> B64Field(body.data.elems[i].b64_json)]]
                    ELSE <<>> ]

----------------------------------------------------------------------------
(***************************************************************************)
(* The diagnostics of main, as the pieces fmt puts together.               *)
(***************************************************************************)
UsageDiag == <<"Usage of ", "generate", ":">>
BadFlagDiag == <<"flag provided but not defined: ", "-x">>
EnvDiag == <<"Error: Environment variables AZURE_OPENAI_RESOURCE, AZURE_OPENAI_DEPLOYMENT, AZURE_OPENAI_API_VERSION must be set">>
PromptRequiredDiag == <<"Error: Prompt is required (-p)">>
PromptFileDiag == <<"Error reading prompt file: ", "read error">>
InputRequiredDiag == <<"Error: Input image is required (-i)">>
InputNotFoundDiag(p) == <<"Error: Input image not found: ">> \o p
BgNotFoundDiag(p) == <<"Error: Background image not found: ">> \o p
MkdirDiag == <<"Error creating output directory: ", "mkdir error">>
TokenDiag(e) == <<"Error obtaining Azure access token: ", e>>
BuildDiag(e) == <<"Error building request: ">> \o e
NewRequestDiag == <<"Error creating HTTP request: ", "invalid URL">>
SendDiag(e) == <<"Error sending request: ", e>>
ReadDiag == <<"Error reading response: ", "unexpected EOF">>
ParseDiag == <<"Error parsing response JSON: ", "unmarshal error">>
\* a plausible slip: the arguments of the format in the wrong order
RemoteErrorDiagSwapsFields(e) ==
    <<"Image edit failed: ", e.Message, " (type=", e.Code, ", code=", e.Type, ")">>

RemoteErrorDiag(e) ==
    <<"Image edit failed: ", e.Message, " (type=", e.Type, ", code=", e.Code, ")">>
NoImageDataDiag == <<"Image edit failed: no image data in response">>
DecodeDiag == <<"Error decoding base64 image: ", "illegal base64 data">>
WriteDiag == <<"Error writing output file: ", "write error">>

\* the Go runtime on an index out of range: the panic message goes to stderr
\* and the process exits with code 2
PanicDiag == <<"panic: runtime error: index out of range [0] with length 0">>
goPanic ==
    /\ stderr' = Append(stderr, PanicDiag)
    /\ exitCode' = 2
    /\ pc' = "exit"

\* a plausible slip: the diagnostic printed but the process not ended, so
\* that the failed step runs again
fatalfRetries(diag) ==
    /\ stderr' = Append(stderr, diag)
    /\ exitCode' = 1
    /\ pc' = pc

\* a plausible slip: exit with code 0
fatalfExitsZero(diag) ==
    /\ stderr' = Append(stderr, diag)
    /\ exitCode' = 0
    /\ pc' = "exit"

\* fatalf: print to stderr, exit with code 1 (deferred calls do not run)
fatalf(diag) ==
    /\ stderr' = Append(stderr, diag)
    /\ exitCode' = 1
    /\ pc' = "exit"


----------------------------------------------------------------------------
(***************************************************************************)
(* mime.TypeByExtension and the parts of the multipart body.               *)
(***************************************************************************)
TypeByExtension(ext) ==
    IF ext = <<".", "p", "n", "g">> THEN "image/png"
    ELSE IF ext = <<".", "j", "p", "g">> THEN "image/jpeg"
    ELSE ""

\* the part addImagePart writes for imagePath, whose bytes are data, under
\* fieldName
ImagePart(fieldName, imagePath, data) ==
    [ kind |-> "file", name |-> fieldName, filename |-> Base(imagePath),
      contentType |-> IF TypeByExtension(Ext(imagePath)) = ""
                      THEN "application/octet-stream"
                      ELSE TypeByExtension(Ext(imagePath)),
      data |-> data, value |-> "" ]

\* the part Writer.WriteField writes
FieldPart(k, v) ==
    [kind |-> "field", name |-> k, filename |-> <<>>, contentType |-> "",
     data |-> <<>>, value |-> v]

\* fieldName of buildMultipartBody
FieldName(imagePaths) == IF Len(imagePaths) > 1 THEN "image[]" ELSE "image"

\* a plausible slip: the foreground put before the background
ImagesForegroundFirst(fg, bg) == IF bg # NoArg THEN <<fg, bg>> ELSE <<fg>>

\* images of main: background first (if provided), then foreground
CollectImages(fg, bg) == IF bg # NoArg THEN <<bg, fg>> ELSE <<fg>>

\* the orders in which ranging over the map of text fields can visit it
FieldOrders ==
    {o \in [1..3 -> {"prompt", "n", "size"}] : \A i, j \in 1..3 : i # j => o[i] # o[j]}

FieldValue(k) == IF k = "prompt" THEN prompt ELSE IF k = "n" THEN "1" ELSE size

Boundary == "boundary-1"
Endpoint == "https://host/openai/deployments/dep/images/edits?api-version=v"


----------------------------------------------------------------------------
(***************************************************************************)
(* main, step by step.                                                     *)
(***************************************************************************)
OutputPaths == {deriveOutputPath(FgPath)}

\* a nil error, and the result of a call that has not returned
NilError == <<>>
NoReturn == [content |-> "", err |-> <<"<not returned>">>]

\* the variables of waitForResponse while it is not exercised
WaitIdle ==
    /\ wpc = "idle" /\ subscribed = FALSE /\ finalContent = "" /\ done = FALSE
    /\ errCh = <<>> /\ hpc = "ready" /\ pending = NilError /\ delivered = <<>>
    /\ closes = 0 /\ stdout = <<>> /\ sendOk = FALSE /\ selectAt = 0 /\ readAt = 0
    /\ ret = NoReturn

Init ==
    /\ pc = "loadEnv" /\ exitCode = -1 /\ stderr = <<>>
    /\ env \in BOOLEAN
    /\ args \in [parse : FlagParses, p : PromptArgs, i : {NoArg, FgPath},
                 b : {NoArg, BgPath, FgPath}, s : {DefaultSize}]
    /\ args.parse # "ok" => (args.p = "" /\ args.i = NoArg /\ args.b = NoArg)
    /\ fileKind \in [ImagePaths -> FileKinds]
    /\ \A path \in ImagePaths : path \notin {args.i, args.b} => fileKind[path] = "absent"
    /\ fileData = [path \in ImagePaths |-> ImageData(path)]
    /\ dirs \in SUBSET ({Dir(path) : path \in ImagePaths \cup OutputPaths} \ {<<Dot>>})
    /\ \A path \in ImagePaths :
           fileKind[path] \in {"ok", "noperm", "readerr"} => DirExists(Dir(path))
    /\ disk \in [OutputPaths -> {NoFile, OldOutput}]
    /\ \A path \in OutputPaths : disk[path] # NoFile => DirExists(Dir(path))
    /\ disk0 = disk
    /\ dirs0 = dirs
    /\ prompt = "" /\ inputImage = NoArg /\ bgImage = NoArg /\ size = ""
    /\ outputFile = NoPath /\ token = "" /\ images = <<>> /\ idx = 0
    /\ parts = <<>> /\ openFiles = {} /\ request = NoRequest /\ sent = <<>>
    /\ respBytes = NoResponse /\ result = NoResult /\ imageBytes = NoBytes
    /\ log = <<>>
    /\ dpIn = NoPath /\ dpOut = NoPath
    /\ WaitIdle

\* godotenv.Load, os.Getenv and the check of the three variables
LoadEnv ==
    /\ pc = "loadEnv"
    /\ IF env THEN pc' = "parseFlags" /\ UNCHANGED <<stderr, exitCode>>
       ELSE fatalf(EnvDiag)
    /\ UNCHANGED <<args, env, prompt, inputImage, bgImage, size, fileKind, fileData, disk0, dirs0,
                   dirs, disk, outputFile, token, images, idx, parts, openFiles,
                   request, sent, respBytes, result, imageBytes, log, pathVars, waitVars>>

\* a plausible slip: the background image not checked
ValidateSkipsBackground(a, fk) ==
    IF a.p = "" THEN PromptRequiredDiag
    ELSE IF PromptIsFile(a.p) /\ ~PromptFileReadable(a.p) THEN PromptFileDiag
    ELSE IF a.i = NoArg THEN InputRequiredDiag
    ELSE IF fk[a.i] = "absent" THEN InputNotFoundDiag(a.i)
    ELSE <<>>

\* the checks main makes on its flags, in its order: the diagnostic of the
\* first that fails, <<>> if none does
Validate(a, fk) ==
    IF a.p = "" THEN PromptRequiredDiag
    ELSE IF PromptIsFile(a.p) /\ ~PromptFileReadable(a.p) THEN PromptFileDiag
    ELSE IF a.i = NoArg THEN InputRequiredDiag
    ELSE IF fk[a.i] = "absent" THEN InputNotFoundDiag(a.i)
    ELSE IF a.b # NoArg /\ fk[a.b] = "absent" THEN BgNotFoundDiag(a.b)
    ELSE <<>>

\* flag.Parse on the default flag set (ExitOnError) when the command line
\* does not parse: the usage goes to stderr and the process exits, with code
\* 0 for -h or -help and with code 2 otherwise
flagExit(parse) ==
    /\ stderr' = Append(stderr, IF parse = "help" THEN UsageDiag ELSE BadFlagDiag)
    /\ exitCode' = IF parse = "help" THEN 0 ELSE 2
    /\ pc' = "exit"

\* flag.Parse and the validation of -p, -i and -b
ParseFlags ==
    /\ pc = "parseFlags"
    /\ inputImage' = args.i /\ bgImage' = args.b /\ size' = args.s
    /\ prompt' = IF PromptIsFile(args.p) /\ PromptFileReadable(args.p)
                 THEN PromptFileContent(args.p) ELSE args.p
    /\ IF args.parse # "ok" THEN flagExit(args.parse)
       ELSE IF Validate(args, fileKind) # <<>> THEN fatalf(Validate(args, fileKind))
       ELSE pc' = "prepareOutput" /\ UNCHANGED <<stderr, exitCode>>
    /\ UNCHANGED <<args, env, fileKind, fileData, disk0, dirs0, dirs, disk, outputFile, token,
                   images, idx, parts, openFiles, request, sent, respBytes, result,
                   imageBytes, log, pathVars, waitVars>>

\* outputFile := deriveOutputPath(*inputImage); os.MkdirAll of its directory
PrepareOutput ==
    /\ pc = "prepareOutput"
    /\ outputFile' = deriveOutputPath(inputImage)
    /\ LET d == Dir(deriveOutputPath(inputImage)) IN
       \/ /\ DirExists(d)
          /\ pc' = "getToken"
          /\ UNCHANGED <<dirs, stderr, exitCode>>
       \/ /\ ~DirExists(d)
          /\ dirs' = dirs \cup {d}
          /\ pc' = "getToken"
          /\ UNCHANGED <<stderr, exitCode>>
       \/ /\ ~DirExists(d)
          /\ fatalf(MkdirDiag)
          /\ UNCHANGED dirs
    /\ UNCHANGED <<args, env, prompt, inputImage, bgImage, size, fileKind, fileData, disk0, dirs0,
                   disk, token, images, idx, parts, openFiles, request, sent,
                   respBytes, result, imageBytes, log, pathVars, waitVars>>

\* getAzureToken: the credential chain answers with a token or an error
GetToken ==
    /\ pc = "getToken"
    /\ log' = Append(log, "token")
    /\ \E outcome \in {"token", "creating credential", "acquiring token"} :
           IF outcome = "token"
           THEN token' = "tok" /\ pc' = "startBuild" /\ UNCHANGED <<stderr, exitCode>>
           ELSE fatalf(TokenDiag(outcome)) /\ UNCHANGED token
    /\ UNCHANGED <<args, env, prompt, inputImage, bgImage, size, fileKind, fileData, disk0, dirs0,
                   dirs, disk, outputFile, images, idx, parts, openFiles, request,
                   sent, respBytes, result, imageBytes, pathVars, waitVars>>

\* the image list of main and the start of buildMultipartBody
StartBuild ==
    /\ pc = "startBuild"
    /\ images' = CollectImages(inputImage, bgImage)
    /\ idx' = 1
    /\ parts' = <<>>
    /\ log' = Append(log, "build")
    /\ pc' = "openImage"
    /\ UNCHANGED <<exitCode, stderr, args, env, prompt, inputImage, bgImage, size,
                   fileKind, fileData, disk0, dirs0, dirs, disk, outputFile, token, openFiles,
                   request, sent, respBytes, result, imageBytes, pathVars, waitVars>>

\* addImagePart: os.Open
OpenImage ==
    /\ pc = "openImage"
    /\ LET path == images[idx] IN
       IF fileKind[path] \in {"ok", "readerr"}
       THEN /\ openFiles' = openFiles \cup {[part |-> idx, path |-> path]}
            /\ pc' = "copyImage"
            /\ UNCHANGED <<stderr, exitCode>>
       ELSE /\ fatalf(BuildDiag(<<"opening image ">> \o path \o <<": ", "open error">>))
            /\ UNCHANGED openFiles
    /\ UNCHANGED <<args, env, prompt, inputImage, bgImage, size, fileKind, fileData, disk0, dirs0,
                   dirs, disk, outputFile, token, images, idx, parts, request, sent,
                   respBytes, result, imageBytes, log, pathVars, waitVars>>

\* a plausible slip: the file never closed (no defer file.Close())
CloseNever(files, f) == files

\* file.Close, deferred in addImagePart: f is no longer among the open files
Close(files, f) == files \ {f}

\* addImagePart: CreatePart, io.Copy, and the deferred file.Close, which
\* runs on every return of addImagePart, the error returns included
CopyImage ==
    /\ pc = "copyImage"
    /\ openFiles' = Close(openFiles, [part |-> idx, path |-> images[idx]])
    /\ LET path == images[idx] IN
       \E outcome \in {"copied", "creating form file for ", "copying image data for "} :
           /\ fileKind[path] = "readerr" => outcome = "copying image data for "
           /\ IF outcome = "copied"
              THEN /\ parts' = Append(parts, ImagePart(FieldName(images), path,
                                                       fileData[path]))
                   /\ idx' = idx + 1
                   /\ pc' = IF idx = Len(images) THEN "writeFields" ELSE "openImage"
                   /\ UNCHANGED <<stderr, exitCode>>
              ELSE /\ fatalf(BuildDiag(<<outcome>> \o path \o <<": ", "i/o error">>))
                   /\ UNCHANGED <<parts, idx>>
    /\ UNCHANGED <<args, env, prompt, inputImage, bgImage, size, fileKind, fileData, disk0, dirs0,
                   dirs, disk, outputFile, token, images, request, sent, respBytes,
                   result, imageBytes, log, pathVars, waitVars>>

\* buildMultipartBody: the three text fields, in the order the map yields
\* them, and Writer.Close; failed = 0 when every write succeeds, 1..3 when the
\* write of that field fails, 4 when Close fails
WriteFields ==
    /\ pc = "writeFields"
    /\ \E order \in FieldOrders, failed \in 0..4 :
           IF failed = 0
           THEN /\ parts' = parts \o [i \in 1..3 |-> FieldPart(order[i], FieldValue(order[i]))]
                /\ pc' = "newRequest"
                /\ UNCHANGED <<stderr, exitCode>>
           ELSE /\ fatalf(BuildDiag(IF failed = 4
                                    THEN <<"closing multipart writer: ", "write error">>
                                    ELSE <<"writing field ", order[failed], ": ",
                                           "write error">>))
                /\ UNCHANGED parts
    /\ UNCHANGED <<args, env, prompt, inputImage, bgImage, size, fileKind, fileData, disk0, dirs0,
                   dirs, disk, outputFile, token, images, idx, openFiles, request,
                   sent, respBytes, result, imageBytes, log, pathVars, waitVars>>

\* http.NewRequest and the two headers
NewRequest ==
    /\ pc = "newRequest"
    /\ \E valid \in BOOLEAN :
           IF valid
           THEN /\ request' = [method |-> "POST", url |-> Endpoint,
                               authorization |-> <<"Bearer ", token>>,
                               contentType |-> <<"multipart/form-data; boundary=", Boundary>>,
                               body |-> [boundary |-> Boundary, parts |-> parts]]
                /\ pc' = "do"
                /\ UNCHANGED <<stderr, exitCode>>
           ELSE fatalf(NewRequestDiag) /\ UNCHANGED request
    /\ UNCHANGED <<args, env, prompt, inputImage, bgImage, size, fileKind, fileData, disk0, dirs0,
                   dirs, disk, outputFile, token, images, idx, parts, openFiles,
                   sent, respBytes, result, imageBytes, log, pathVars, waitVars>>

\* client.Do: the request goes out; the call answers or fails
Do ==
    /\ pc = "do"
    /\ sent' = Append(sent, request)
    /\ log' = Append(log, "post")
    /\ \E outcome \in {"response", "connection refused", "timeout"} :
           IF outcome = "response"
           THEN pc' = "readAll" /\ UNCHANGED <<stderr, exitCode>>
           ELSE fatalf(SendDiag(outcome))
    /\ UNCHANGED <<args, env, prompt, inputImage, bgImage, size, fileKind, fileData, disk0, dirs0,
                   dirs, disk, outputFile, token, images, idx, parts, openFiles,
                   request, respBytes, result, imageBytes, pathVars, waitVars>>

\* io.ReadAll(resp.Body)
ReadAll ==
    /\ pc = "readAll"
    /\ \/ /\ \E body \in ResponseBodies : respBytes' = body
          /\ pc' = "decode"
          /\ UNCHANGED <<stderr, exitCode>>
       \/ /\ fatalf(ReadDiag)
          /\ UNCHANGED respBytes
    /\ UNCHANGED <<args, env, prompt, inputImage, bgImage, size, fileKind, fileData, disk0, dirs0,
                   dirs, disk, outputFile, token, images, idx, parts, openFiles,
                   request, sent, result, imageBytes, log, pathVars, waitVars>>

\* a plausible slip: the data checked before the error object, so that an
\* image that came with an error object is used
OutcomeDataFirst(r) ==
    IF Len(r.Data) > 0 /\ r.Data[1].B64JSON # <<>>
    THEN IF DecodeString(r.Data[1].B64JSON).err THEN "corrupt" ELSE "image"
    ELSE IF ~r.Error.nil THEN "remote error"
    ELSE "no image data"

\* a plausible slip: Data[0] read without the check of len(Data), which
\* panics (index out of range) on an empty list
OutcomeNoLengthCheck(r) ==
    IF ~r.Error.nil THEN "remote error"
    ELSE IF Len(r.Data) = 0 THEN "panic"
    ELSE IF r.Data[1].B64JSON = <<>> THEN "no image data"
    ELSE IF DecodeString(r.Data[1].B64JSON).err THEN "corrupt"
    ELSE "image"

\* the checks main makes on the parsed response, in its order ("panic" would
\* be an index out of range, which the check of the length rules out)
Outcome(r) ==
    IF ~r.Error.nil THEN "remote error"
    ELSE IF Len(r.Data) = 0 \/ r.Data[1].B64JSON = <<>> THEN "no image data"
    ELSE IF DecodeString(r.Data[1].B64JSON).err THEN "corrupt"
    ELSE "image"

\* json.Unmarshal, the error check, the data check and the base64 decode
DecodeResponse ==
    /\ pc = "decode"
    /\ log' = Append(log, "decode")
    /\ IF ~WellTyped(respBytes)
       THEN fatalf(ParseDiag) /\ UNCHANGED <<result, imageBytes>>
       ELSE LET r == Decoded(respBytes) IN
            /\ result' = r
            /\ IF Outcome(r) = "remote error"
               THEN fatalf(RemoteErrorDiag(r.Error)) /\ UNCHANGED imageBytes
               ELSE IF Outcome(r) = "no image data"
               THEN fatalf(NoImageDataDiag) /\ UNCHANGED imageBytes
               ELSE IF Outcome(r) = "corrupt"
               THEN fatalf(DecodeDiag) /\ UNCHANGED imageBytes
               ELSE IF Outcome(r) = "panic"
               THEN goPanic /\ UNCHANGED imageBytes
               ELSE /\ imageBytes' = DecodeString(r.Data[1].B64JSON).bytes
                    /\ pc' = "writeFile"
                    /\ UNCHANGED <<stderr, exitCode>>
    /\ UNCHANGED <<args, env, prompt, inputImage, bgImage, size, fileKind, fileData, disk0, dirs0,
                   dirs, disk, outputFile, token, images, idx, parts, openFiles,
                   request, sent, respBytes, pathVars, waitVars>>

\* os.WriteFile: the file is replaced, or cannot be opened, or is truncated
\* and the write then fails part-way
WriteFile ==
    /\ pc = "writeFile"
    /\ log' = Append(log, "write")
    /\ \/ /\ disk' = [disk EXCEPT ![outputFile] = imageBytes]
          /\ pc' = "finish"
          /\ UNCHANGED <<stderr, exitCode>>
       \/ /\ fatalf(WriteDiag)
          /\ UNCHANGED disk
       \/ /\ \E n \in 0..(Len(imageBytes) - 1) :
                 disk' = [disk EXCEPT ![outputFile] = Slice(imageBytes, 1, n)]
          /\ fatalf(WriteDiag)
    /\ UNCHANGED <<args, env, prompt, inputImage, bgImage, size, fileKind, fileData, disk0, dirs0,
                   dirs, outputFile, token, images, idx, parts, openFiles, request,
                   sent, respBytes, result, imageBytes, pathVars, waitVars>>

\* the closing prints of main and its return: exit code 0
Finish ==
    /\ pc = "finish"
    /\ pc' = "exit"
    /\ exitCode' = 0
    /\ UNCHANGED <<stderr, args, env, prompt, inputImage, bgImage, size, fileKind,
                   fileData, disk0, dirs0, dirs, disk, outputFile, token, images, idx, parts,
                   openFiles, request, sent, respBytes, result, imageBytes, log,
                   pathVars, waitVars>>

Next ==
    \/ LoadEnv \/ ParseFlags \/ PrepareOutput \/ GetToken \/ StartBuild
    \/ OpenImage \/ CopyImage \/ WriteFields \/ NewRequest \/ Do \/ ReadAll
    \/ DecodeResponse \/ WriteFile \/ Finish

Spec == Init /\ [][Next]_vars


----------------------------------------------------------------------------
(***************************************************************************)
(* Properties of a run of main.                                            *)
(***************************************************************************)
\* main has run the step that logs itself as step
Ran(step) == \E i \in 1..Len(log) : log[i] = step

\* the steps main logs, in the order of its text
Steps == <<"token", "build", "post", "decode", "write">>

\* a/c_generated.png, where the image for -i a/c.png belongs
OutputLiteral ==
    <<"a", "/", "c", "_", "g", "e", "n", "e", "r", "a", "t", "e", "d", ".", "p", "n", "g">>

\* the response body was read and json.Unmarshal accepted it
Parsed == Ran("decode") /\ WellTyped(respBytes)

\* the body carries an "error" object
BodyHasErrorObject == respBytes.kind = "object" /\ respBytes.error.t = "object"

\* the text of data[0].b64_json in the body, <<>> if there is none
BodyFirstPayload ==
    IF /\ respBytes.kind = "object"
       /\ respBytes.data.t = "array"
       /\ Len(respBytes.data.elems) >= 1
       /\ respBytes.data.elems[1].b64_json.t = "string"
    THEN respBytes.data.elems[1].b64_json.v
    ELSE <<>>

\* base64 text by its shape (RFC 4648 with '=' padding; line breaks do not
\* count): a multiple of four characters of the alphabet, the last one or
\* two of which may be padding
WithoutNewLines(s) == SelectSeq(s, LAMBDA c : c # B64NewLine)
IsValidBase64(s) ==
    LET t == WithoutNewLines(s)
        n == Len(t)
    IN /\ n % 4 = 0
       /\ \A i \in 1..n :
             \/ t[i] < 64
             \/ t[i] = B64Pad /\ (i = n \/ (i = n - 1 /\ t[n] = B64Pad))

\* C1: whenever the parsed response carries an error object, the run ends in
\* the remote-error failure, its diagnostic carrying the object's message,
\* type and code as they are in the body, whatever data holds; nothing is
\* decoded and no file is written.
C1_RemoteErrorPrecedence ==
    (Parsed /\ BodyHasErrorObject) =>
        /\ pc = "exit" /\ exitCode = 1
        /\ stderr = << <<"Image edit failed: ", respBytes.error.message.v,
                         " (type=", respBytes.error.type.v,
                         ", code=", respBytes.error.code.v, ")">> >>
        /\ imageBytes = NoBytes
        /\ ~Ran("write") /\ disk = disk0

\* C1 witness: a body with an error object AND a decodable image has ended
\* the run in the remote-error failure
C1_Witness ==
    /\ Parsed /\ BodyHasErrorObject
    /\ BodyFirstPayload = EncodeToString(<<77>>)
    /\ stderr = << <<"Image edit failed: ", "quota exceeded", " (type=",
                     "invalid_request_error", ", code=", "429", ")">> >>

\* C2: a parsed response with no error object whose data is absent, empty,
\* or has an empty first b64_json ends the run in the "no image data"
\* failure: exit code 1 (no panic, which exits 2) with that diagnostic, which
\* is neither the remote-error nor the base64 diagnostic; nothing is written.
C2_NoImageData ==
    (Parsed /\ ~BodyHasErrorObject /\ BodyFirstPayload = <<>>) =>
        /\ pc = "exit" /\ exitCode = 1
        /\ stderr = <<NoImageDataDiag>>
        /\ stderr[1] # DecodeDiag
        /\ stderr[1] # RemoteErrorDiag(result.Error)
        /\ ~Ran("write") /\ disk = disk0

\* C2 witness: {"data": []} has ended the run in the "no image data" failure
C2_Witness ==
    /\ Parsed /\ ~BodyHasErrorObject
    /\ respBytes.kind = "object" /\ respBytes.data = DataMember("array", <<>>)
    /\ pc = "exit" /\ stderr = <<NoImageDataDiag>>

\* C3: the output file is written, and the disk differs from what it was,
\* only after all five steps ran on a response that was read, parsed, has no
\* error object and a non-empty first payload of valid base64; a run that
\* failed before the write leaves the disk as it was.
C3_NoPartialSuccess ==
    /\ (Ran("write") \/ disk # disk0) =>
           /\ log = Steps
           /\ respBytes # NoResponse /\ WellTyped(respBytes)
           /\ ~BodyHasErrorObject
           /\ BodyFirstPayload # <<>> /\ IsValidBase64(BodyFirstPayload)
           /\ imageBytes # NoBytes
    /\ (pc = "exit" /\ exitCode # 0 /\ ~Ran("write")) => disk = disk0

\* C3 witness: a run failed in the base64 decode and the file that was at
\* the output path is still there
C3_Witness ==
    /\ pc = "exit" /\ exitCode = 1 /\ stderr = <<DecodeDiag>>
    /\ disk0[OutputLiteral] = OldOutput /\ disk = disk0

\* C4: when the parsed response has no error object and data[0].b64_json is
\* the standard encoding of bytes B, the run decodes exactly B, goes on to
\* the write, and a run that exits 0 leaves exactly B at a/c_generated.png;
\* further elements of data change nothing.
C4_DecodesAndWritesPayload ==
    \A b \in Payloads \ {<<>>} :
        (Parsed /\ ~BodyHasErrorObject /\ BodyFirstPayload = EncodeToString(b)) =>
            /\ imageBytes = b
            /\ pc = "exit" => Ran("write")
            /\ (pc = "finish" \/ exitCode = 0) =>
                   outputFile = OutputLiteral /\ disk[OutputLiteral] = b

\* C4 witness: a two-element data whose first payload encodes 77,255 has been
\* written
C4_Witness ==
    /\ exitCode = 0
    /\ Len(respBytes.data.elems) = 2
    /\ BodyFirstPayload = EncodeToString(<<77, 255>>)
    /\ disk[OutputLiteral] = <<77, 255>>

\* C5: when the parsed response has no error object and data[0].b64_json is
\* non-empty text that is not valid base64, the run ends with exit code 1 and
\* the base64 diagnostic, which is neither of the other two; nothing is
\* written.
C5_CorruptPayload ==
    (Parsed /\ ~BodyHasErrorObject /\ BodyFirstPayload # <<>>
        /\ ~IsValidBase64(BodyFirstPayload)) =>
        /\ pc = "exit" /\ exitCode = 1
        /\ stderr = <<DecodeDiag>>
        /\ stderr[1] # NoImageDataDiag
        /\ stderr[1] # RemoteErrorDiag(result.Error)
        /\ ~Ran("write") /\ disk = disk0

\* C5 witness: an encoding with a character outside the alphabet has ended
\* the run in the base64 failure
C5_Witness ==
    /\ Parsed /\ ~BodyHasErrorObject
    /\ BodyFirstPayload = ReplaceAt(EncodeToString(<<77>>), 1, B64Bad)
    /\ pc = "exit" /\ stderr = <<DecodeDiag>>

\* the file parts among ps, in order
FileParts(ps) == SelectSeq(ps, LAMBDA p : p.kind = "file")

\* the base names of the two image paths
FileNameOf(path) == IF path = FgPath THEN <<"c", ".", "p", "n", "g">> ELSE BgPath

\* whether fp is the part for path under name
IsPartFor(fp, name, path) ==
    fp.name = name /\ fp.filename = FileNameOf(path) /\ fp.data = ImageData(path)

\* the image parts the command line asks for
ImagePartsAsAsked(ps) ==
    LET fp == FileParts(ps) IN
    IF args.b = NoArg
    THEN Len(fp) = 1 /\ IsPartFor(fp[1], "image", args.i)
    ELSE /\ Len(fp) = 2
         /\ IsPartFor(fp[1], "image[]", args.b)
         /\ IsPartFor(fp[2], "image[]", args.i)

\* buildMultipartBody has returned the body
BodyBuilt == pc \in {"newRequest", "do", "readAll", "decode", "writeFile", "finish"}

\* C6: the body built, and every request sent, holds one image part per
\* supplied path in the supplied order: one part named image for -i alone;
\* two parts named image[] for -b and -i, the background first.
C6_ImageParts ==
    /\ BodyBuilt => ImagePartsAsAsked(parts)
    /\ \A i \in 1..Len(sent) : ImagePartsAsAsked(sent[i].body.parts)

\* C6 witness: a request with the parts bg.jpg then c.png, both image[], is
\* on the wire
C6_Witness ==
    /\ Len(sent) = 1 /\ args.b = BgPath
    /\ LET fp == FileParts(sent[1].body.parts) IN
       /\ Len(fp) = 2
       /\ fp[1].name = "image[]" /\ fp[1].filename = BgPath
       /\ fp[2].name = "image[]" /\ fp[2].filename = <<"c", ".", "p", "n", "g">>

\* C7: the credential fetch, the build, the POST and the decode (and the
\* write) each run at most once and in that order; at most one request goes
\* out and it carries the fetched token; a diagnostic is printed at most once
\* and ends the process at once, with a non-zero exit code unless it is the
\* usage asked for with -h; nothing runs after the exit.
C7_LinearNoRetry ==
    /\ Len(log) <= Len(Steps) /\ log = SubSeq(Steps, 1, Len(log))
    /\ Len(sent) <= 1
    /\ Ran("post") <=> Len(sent) = 1
    /\ \A i \in 1..Len(sent) : sent[i].authorization = <<"Bearer ", "tok">>
    /\ Len(stderr) <= 1
    /\ stderr # <<>> => pc = "exit"
    /\ (stderr # <<>> /\ stderr[1] # UsageDiag) => exitCode \in {1, 2}
    /\ exitCode # -1 => pc = "exit"
    /\ pc = "exit" => ~ENABLED Next

\* C7 witness: the POST failed; the run ended with one request sent
C7_Witness ==
    /\ pc = "exit" /\ exitCode = 1
    /\ log = <<"token", "build", "post">>
    /\ Len(sent) = 1
    /\ stderr = <<SendDiag("timeout")>>

\* the images the command line names
NamedImages == {args.i, args.b} \ {NoArg}

\* the command line fails validation
ValidationError ==
    \/ args.p = ""
    \/ args.i = NoArg
    \/ \E path \in NamedImages : fileKind[path] = "absent"

\* the first words of the diagnostics of the steps before the POST
PreSendDiags ==
    { UsageDiag[1], BadFlagDiag[1], EnvDiag[1], PromptRequiredDiag[1], PromptFileDiag[1], InputRequiredDiag[1],
      InputNotFoundDiag(<<>>)[1], BgNotFoundDiag(<<>>)[1], MkdirDiag[1],
      TokenDiag("")[1], BuildDiag(<<>>)[1], NewRequestDiag[1] }

\* C8: with a validation error (no -p, no -i, an image not found) neither
\* the credential fetch nor the build nor the POST runs; with an image that
\* cannot be opened or read, also one whose stat fails otherwise than
\* not-exist, no request is sent; after any diagnostic of a step before the
\* POST no request is sent.
C8_NoRequestUnlessAllBeforeSucceeded ==
    /\ ValidationError => (log = <<>> /\ sent = <<>>)
    /\ (\E path \in NamedImages : fileKind[path] # "ok") => sent = <<>>
    /\ (stderr # <<>> /\ stderr[1][1] \in PreSendDiags) => sent = <<>>
    /\ sent # <<>> =>
           /\ env /\ ~ValidationError
           /\ \A path \in NamedImages : fileKind[path] = "ok"
           /\ token = "tok"
           /\ SubSeq(log, 1, 3) = <<"token", "build", "post">>

\* C8 witness: an image whose stat failed otherwise than not-exist passed
\* validation and the run ended in the build, nothing sent
C8_Witness ==
    /\ fileKind[FgPath] = "staterr"
    /\ pc = "exit" /\ log = <<"token", "build">> /\ sent = <<>>
    /\ stderr[1][1] = "Error building request: "

\* the run succeeded: every step ran and the decoded image is at
\* a/c_generated.png
RunSucceeded ==
    /\ log = Steps /\ imageBytes # NoBytes
    /\ outputFile = OutputLiteral /\ disk[OutputLiteral] = imageBytes

\* C9 as stated: the process exits with code 0 if and only if the run
\* succeeded, the decoded image written to the derived output path.
C9_Original == pc = "exit" => (exitCode = 0 <=> RunSucceeded)

\* C9 amended: the process exits with code 0 exactly when the run succeeded
\* or flag.Parse was reached (the environment is set) and the usage was asked
\* for with -h or -help; a run that succeeded printed
\* no diagnostic; every failure exits with a non-zero code (2 for a command
\* line that does not parse, 1 otherwise) after exactly one diagnostic; there
\* is no exit code before the exit.
C9_ExitCode ==
    /\ pc # "exit" => exitCode = -1
    /\ pc = "exit" =>
           /\ exitCode \in {0, 1, 2}
           /\ exitCode = 0 <=> (RunSucceeded \/ (env /\ args.parse = "help"))
           /\ RunSucceeded => stderr = <<>>
           /\ exitCode # 0 => Len(stderr) = 1
           /\ exitCode = 2 <=> (env /\ args.parse = "bad")

\* C9 witness: a run has exited 0 with the image on disk
C9_Witness ==
    /\ pc = "exit" /\ exitCode = 0
    /\ disk[OutputLiteral] = imageBytes /\ imageBytes = <<77>>


----------------------------------------------------------------------------
(***************************************************************************)
(* deriveOutputPath on its own: every path up to MaxPathLen over the       *)
(* characters that matter to path/filepath, and the two paths its comment  *)
(* and the specification name.                                             *)
(***************************************************************************)
PathChars == {"a", Dot, Slash}

AssetsCatPng == <<"a", "s", "s", "e", "t", "s", "/", "c", "a", "t", ".", "p", "n", "g">>
AssetsCat == <<"a", "s", "s", "e", "t", "s", "/", "c", "a", "t">>

PathInputs == SeqsUpTo(PathChars, MaxPathLen) \cup {AssetsCatPng, AssetsCat}

\* the main program's variables while only deriveOutputPath is exercised
MainIdle ==
    /\ pc = "idle" /\ exitCode = -1 /\ stderr = <<>> /\ env = FALSE /\ args = <<>>
    /\ prompt = "" /\ inputImage = <<>> /\ bgImage = <<>> /\ size = ""
    /\ fileKind = <<>> /\ fileData = <<>> /\ dirs = {} /\ disk = <<>>
    /\ disk0 = <<>>
    /\ dirs0 = {}
    /\ outputFile = <<>> /\ token = "" /\ images = <<>> /\ idx = 0
    /\ parts = <<>> /\ openFiles = {} /\ request = <<>> /\ sent = <<>>
    /\ respBytes = <<>> /\ result = <<>> /\ imageBytes = <<>> /\ log = <<>>

InitDerive ==
    /\ MainIdle
    /\ WaitIdle
    /\ dpIn \in PathInputs
    /\ dpOut = NoPath

\* one call of deriveOutputPath
Derive ==
    /\ dpOut = NoPath
    /\ dpOut' = deriveOutputPath(dpIn)
    /\ UNCHANGED <<dpIn, mainVars, waitVars>>

NextDerive == Derive

SpecDerive == InitDerive /\ [][NextDerive]_vars

----------------------------------------------------------------------------
(***************************************************************************)
(* waitForResponse (src/main.go): the caller goroutine registers a handler,*)
(* sends the prompt and selects on done and errCh, while the session's     *)
(* event-dispatch goroutine calls the handler with the events it delivers. *)
(* The handler's access to finalContent and the caller's read of it are    *)
(* under mu, so each is one step.                                          *)
(***************************************************************************)
\* the most events a session delivers during one call
MaxEvents == 3

\* the event types the handler tells apart, and one it ignores
AssistantMessageDelta == "assistant.message_delta"
AssistantMessage == "assistant.message"
SessionIdle == "session.idle"
SessionError == "session.error"
OtherEvent == "tool.execution_start"

\* a *string of event.Data: Nil, or <<s>> for a pointer to s
Nil == <<>>
Contents == {Nil, <<"x">>, <<"y">>}

\* the events a session may deliver, in any order and number
SessionEvents ==
    [type : {AssistantMessageDelta}, content : {<<"x">>}]
        \cup [type : {AssistantMessage}, content : Contents]
        \cup [type : {SessionIdle, OtherEvent}, content : {Nil}]
        \cup [type : {SessionError}, content : {Nil, <<"x">>}]

\* a plausible slip: a message without content clears what was collected
OnAssistantMessageNilClears(fc, content) == IF content = Nil THEN "" ELSE content[1]

\* case copilot.AssistantMessage: the new value of finalContent
OnAssistantMessage(fc, content) == IF content = Nil THEN fc ELSE content[1]

\* case copilot.SessionError: the error sent on errCh
SessionErrorOf(content) ==
    <<"session error: ", IF content = Nil THEN "unknown session error" ELSE content[1]>>

\* the error waitForResponse makes of a failed session.Send
SendError == <<"failed to send message: ", "send error">>

\* capacity of errCh
ErrChCap == 1

\* the state at the call of waitForResponse: the locals declared, the
\* channels made
InitWait ==
    /\ MainIdle
    /\ dpIn = NoPath /\ dpOut = NoPath
    /\ wpc = "subscribe" /\ subscribed = FALSE /\ finalContent = "" /\ done = FALSE
    /\ errCh = <<>> /\ hpc = "ready" /\ pending = NilError /\ delivered = <<>>
    /\ closes = 0 /\ stdout = <<>> /\ sendOk = FALSE /\ selectAt = 0 /\ readAt = 0
    /\ ret = NoReturn

\* unsubscribe := session.On(handler)
Subscribe ==
    /\ wpc = "subscribe"
    /\ subscribed' = TRUE
    /\ wpc' = "send"
    /\ UNCHANGED <<finalContent, done, errCh, hpc, pending, delivered, closes, stdout,
                   sendOk, selectAt, readAt, ret, mainVars, pathVars>>

\* session.Send and the check of its error; on an error waitForResponse
\* returns at once, and the deferred unsubscribe runs
Send ==
    /\ wpc = "send"
    /\ \E ok \in BOOLEAN :
           /\ sendOk' = ok
           /\ IF ok
              THEN wpc' = "select" /\ UNCHANGED <<ret, subscribed>>
              ELSE /\ ret' = [content |-> "", err |-> SendError]
                   /\ subscribed' = FALSE
                   /\ wpc' = "returned"
    /\ UNCHANGED <<finalContent, done, errCh, hpc, pending, delivered, closes, stdout,
                   selectAt, readAt, mainVars, pathVars>>

\* the select statement: the done case can be taken once done is closed, the
\* errCh case once errCh holds an error; with both ready either may be taken;
\* the errCh case returns, and the deferred unsubscribe runs
Select ==
    /\ wpc = "select"
    /\ selectAt' = Len(delivered)
    /\ \/ /\ done
          /\ wpc' = "readContent"
          /\ UNCHANGED <<errCh, ret, subscribed>>
       \/ /\ errCh # <<>>
          /\ ret' = [content |-> "", err |-> Head(errCh)]
          /\ errCh' = Tail(errCh)
          /\ subscribed' = FALSE
          /\ wpc' = "returned"
    /\ UNCHANGED <<finalContent, done, hpc, pending, delivered, closes, stdout, sendOk,
                   readAt, mainVars, pathVars>>

\* the done case: mu.Lock, return finalContent, nil; the deferred mu.Unlock
\* and unsubscribe run
ReturnContent ==
    /\ wpc = "readContent"
    /\ readAt' = Len(delivered)
    /\ ret' = [content |-> finalContent, err |-> NilError]
    /\ subscribed' = FALSE
    /\ wpc' = "returned"
    /\ UNCHANGED <<finalContent, done, errCh, hpc, pending, delivered, closes, stdout,
                   sendOk, selectAt, mainVars, pathVars>>

\* the session delivers an event: the dispatch goroutine calls the handler
\* with it. close(done) on a closed channel panics: the dispatcher either
\* recovers and goes on, or the panic ends the process. errCh <- on a full
\* errCh blocks the dispatch goroutine.
Deliver ==
    /\ subscribed /\ hpc = "ready" /\ wpc # "crashed"
    /\ Len(delivered) < MaxEvents
    /\ \E event \in SessionEvents :
           /\ delivered' = Append(delivered, event)
           /\ stdout' = IF event.type = AssistantMessageDelta /\ event.content # Nil
                        THEN Append(stdout, event.content[1]) ELSE stdout
           /\ finalContent' = IF event.type = AssistantMessage
                              THEN OnAssistantMessage(finalContent, event.content)
                              ELSE finalContent
           /\ IF event.type = SessionIdle
              THEN /\ closes' = closes + 1
                   /\ done' = TRUE
                   /\ IF done
                      THEN \/ wpc' = wpc
                           \/ wpc' = "crashed"
                      ELSE wpc' = wpc
              ELSE UNCHANGED <<closes, done, wpc>>
           /\ IF event.type = SessionError
              THEN IF Len(errCh) < ErrChCap
                   THEN /\ errCh' = Append(errCh, SessionErrorOf(event.content))
                        /\ UNCHANGED <<hpc, pending>>
                   ELSE /\ hpc' = "blocked"
                        /\ pending' = SessionErrorOf(event.content)
                        /\ UNCHANGED errCh
              ELSE UNCHANGED <<errCh, hpc, pending>>
    /\ UNCHANGED <<subscribed, sendOk, selectAt, readAt, ret, mainVars, pathVars>>

\* a blocked errCh <- completes once errCh has room, and the handler returns
Unblock ==
    /\ hpc = "blocked" /\ wpc # "crashed"
    /\ Len(errCh) < ErrChCap
    /\ errCh' = Append(errCh, pending)
    /\ pending' = NilError
    /\ hpc' = "ready"
    /\ UNCHANGED <<wpc, subscribed, finalContent, done, delivered, closes, stdout,
                   sendOk, selectAt, readAt, ret, mainVars, pathVars>>

NextWait == Subscribe \/ Send \/ Select \/ ReturnContent \/ Deliver \/ Unblock

SpecWait == InitWait /\ [][NextWait]_vars

----------------------------------------------------------------------------
(***************************************************************************)
(* C10: output path derivation.                                            *)
(***************************************************************************)
\* a file name with "_generated" put before its last dot, or at its end if
\* it has no dot
RECURSIVE LastDotFrom(_, _)
LastDotFrom(s, i) == IF i >= 1 /\ s[i] # Dot THEN LastDotFrom(s, i - 1) ELSE i

InsertGenerated(file) ==
    LET j == LastDotFrom(file, Len(file)) IN
    IF j = 0 THEN file \o GeneratedSuffix
    ELSE Slice(file, 1, j - 1) \o GeneratedSuffix \o Slice(file, j, Len(file))

\* dpIn read as dir/file: dir the text before the last separator, file the
\* non-empty text after it
DpHasDirForm == LastSlash(dpIn) >= 1 /\ LastSlash(dpIn) < Len(dpIn)
DpDir == Slice(dpIn, 1, LastSlash(dpIn) - 1)
DpFile == Slice(dpIn, LastSlash(dpIn) + 1, Len(dpIn))
\* file is a name, not the "." or ".." directory entry
DpFileIsName == DpFile \notin {<<Dot>>, <<Dot, Dot>>}

\* dir is written in filepath.Clean form (the empty dir of "/file" included)
DpDirIsClean == DpDir = <<>> \/ (Clean(DpDir) = DpDir /\ DpDir \notin {<<Dot>>, <<Slash>>})

\* the directory part of the result for a directory that cleans to c
DirPrefix(c) ==
    IF c = <<Dot>> THEN <<>> ELSE IF c = <<Slash>> THEN c ELSE c \o <<Slash>>

\* C10 as stated: for EVERY path dir/name.ext the result is dir/name_generated.ext
\* (dir/name_generated without an extension), and never the input path.
C10_Original ==
    (dpOut # NoPath /\ DpHasDirForm /\ DpFileIsName) =>
        /\ dpOut = DpDir \o <<Slash>> \o InsertGenerated(DpFile)
        /\ dpOut # dpIn

\* C10 amended: for every path dir/name.ext whose dir is written in clean form
\* the result is dir/name_generated.ext (dir/name_generated without an
\* extension); for any other dir the result is the same with dir replaced by
\* its cleaned form (no directory part at all when dir cleans to "."); a bare
\* name.ext gives name_generated.ext; the result never equals the input.
C10_DeriveOutputPath ==
    dpOut # NoPath =>
        /\ (DpHasDirForm /\ DpDirIsClean) =>
               dpOut = DpDir \o <<Slash>> \o InsertGenerated(DpFile)
        /\ (DpHasDirForm /\ ~DpDirIsClean) =>
               dpOut = DirPrefix(Clean(Slice(dpIn, 1, LastSlash(dpIn))))
                           \o InsertGenerated(DpFile)
        /\ (LastSlash(dpIn) = 0 /\ dpIn # <<>>) => dpOut = InsertGenerated(dpIn)
        /\ dpOut # dpIn
        /\ (dpIn = AssetsCatPng) =>
               dpOut = <<"a", "s", "s", "e", "t", "s", "/", "c", "a", "t", "_", "g",
                         "e", "n", "e", "r", "a", "t", "e", "d", ".", "p", "n", "g">>
        /\ (dpIn = AssetsCat) => dpOut = AssetsCat \o GeneratedSuffix

\* C10 witness: assets/cat.png has been derived to assets/cat_generated.png
C10_Witness ==
    /\ dpIn = AssetsCatPng
    /\ dpOut = Slice(AssetsCatPng, 1, 10) \o GeneratedSuffix \o <<".", "p", "n", "g">>

----------------------------------------------------------------------------
(***************************************************************************)
(* C11: what a run leaves on the local disk.                               *)
(***************************************************************************)
\* the run got as far as the credential and ended in a failure without
\* reaching the write step (credential, build, transport, parse, remote
\* error, no image data or decode failure)
FailedBeforeWrite ==
    pc = "exit" /\ exitCode # 0 /\ Ran("token") /\ ~Ran("write")

\* C11: a run that fails before the write step leaves the file system as it
\* found it: the output file untouched and no directory created, the parent
\* directory of the output included.
C11_FailureLeavesDiskUnchanged ==
    FailedBeforeWrite => (disk = disk0 /\ dirs = dirs0)

----------------------------------------------------------------------------
(***************************************************************************)
(* C12: the handles of the input image files.                              *)
(***************************************************************************)
\* the HTTP request has been handed to client.Do, or is about to be
RequestInFlight == pc \in {"do", "readAll"} \/ sent # <<>>

\* C12: at most one input image file is open at any time; a file is open only
\* between its os.Open and the return of its addImagePart, while its part is
\* the next to be written; none is open once the build has ended (with
\* success or with a failed open or copy), while the request is in flight, or
\* at exit.
C12_ScopedFileHandles ==
    /\ Cardinality(openFiles) <= 1
    /\ openFiles # {} =>
           /\ pc = "copyImage"
           /\ openFiles = {[part |-> idx, path |-> images[idx]]}
           /\ Len(FileParts(parts)) = idx - 1
    /\ pc = "copyImage" => Cardinality(openFiles) = 1
    /\ RequestInFlight => openFiles = {}
    /\ pc = "exit" => openFiles = {}

\* C12 witness: two images were sent, the request is in flight and no input
\* file is open
C12_Witness ==
    /\ Len(images) = 2
    /\ pc = "readAll" /\ Len(sent) = 1
    /\ Len(FileParts(parts)) = 2
    /\ openFiles = {}

----------------------------------------------------------------------------
(***************************************************************************)
(* C13..C15: waitForResponse.                                              *)
(***************************************************************************)
\* the positions at which events of the given type stand in evs
PositionsOf(evs, type) == {i \in 1..Len(evs) : evs[i].type = type}
Min(S) == CHOOSE i \in S : \A j \in S : i <= j
Max(S) == CHOOSE i \in S : \A j \in S : i >= j

\* a Content as a string, the nil pointer read as the empty string
TextOf(content) == IF content = Nil THEN "" ELSE content[1]

\* the Content of the last AssistantMessage event of evs, "" if there is none
LastMessage(evs) ==
    IF PositionsOf(evs, AssistantMessage) = {} THEN ""
    ELSE TextOf(evs[Max(PositionsOf(evs, AssistantMessage))].content)

\* the Content of the last AssistantMessage event of evs that carries one,
\* "" if there is none
LastMessageWithContent(evs) ==
    LET withContent == {i \in PositionsOf(evs, AssistantMessage) : evs[i].content # Nil}
    IN IF withContent = {} THEN "" ELSE evs[Max(withContent)].content[1]

\* the events delivered before the (first) SessionIdle event
BeforeIdle(evs) == SubSeq(evs, 1, Min(PositionsOf(evs, SessionIdle)) - 1)

Returned == wpc = "returned"
IdleDelivered == PositionsOf(delivered, SessionIdle) # {}
ErrorDelivered == PositionsOf(delivered, SessionError) # {}

\* C13 as stated: with Send succeeding and no SessionError delivered, the
\* result is (Content of the last AssistantMessage event delivered before
\* SessionIdle, nil), "" if there was none, and there is no return before
\* SessionIdle; with Send failing the result is the send error, no event
\* waited for.
C13_Original ==
    /\ (Returned /\ sendOk /\ ~ErrorDelivered) =>
           /\ IdleDelivered
           /\ ret = [content |-> LastMessage(BeforeIdle(delivered)), err |-> NilError]
    /\ (Returned /\ ~sendOk) => (ret.err = SendError /\ selectAt = 0)

\* C13 amended: a result with a nil error comes only after Send succeeded and
\* SessionIdle was delivered, and its content is the Content of the last
\* AssistantMessage event that carries a Content (a message with a nil
\* Content leaves the collected one in place) among those delivered before
\* finalContent is read, "" if there is none; that is the last message before
\* SessionIdle when every message carries a Content and none is delivered
\* between SessionIdle and the read. With Send succeeding and no SessionError
\* delivered the error is nil. With Send failing the result is ("", send
\* error), no event waited for.
C13_CollectsResponse ==
    /\ wpc = "readContent" => (sendOk /\ done /\ IdleDelivered)
    /\ (Returned /\ ret.err = NilError) =>
           /\ sendOk
           /\ PositionsOf(SubSeq(delivered, 1, selectAt), SessionIdle) # {}
           /\ ret.content = LastMessageWithContent(SubSeq(delivered, 1, readAt))
           /\ ( /\ \A i \in PositionsOf(delivered, AssistantMessage) :
                       /\ delivered[i].content # Nil
                       /\ i > readAt \/ i < Min(PositionsOf(delivered, SessionIdle))
              ) => ret.content = LastMessage(BeforeIdle(delivered))
    /\ (Returned /\ sendOk /\ ~ErrorDelivered) => ret.err = NilError
    /\ (Returned /\ ~sendOk) =>
           (ret = [content |-> "", err |-> SendError] /\ selectAt = 0 /\ readAt = 0)

\* C13 witness: two messages, then SessionIdle; the second message's content
\* was returned with a nil error
C13_Witness ==
    /\ Returned /\ sendOk
    /\ Len(delivered) = 3
    /\ delivered[1] = [type |-> AssistantMessage, content |-> <<"x">>]
    /\ delivered[2] = [type |-> AssistantMessage, content |-> <<"y">>]
    /\ delivered[3].type = SessionIdle
    /\ ret = [content |-> "y", err |-> NilError]

\* the dispatch goroutine is blocked in errCh <- and nothing will ever
\* receive: the caller has left the select statement
BlockedForever == hpc = "blocked" /\ wpc \in {"readContent", "returned"}

\* C14: whatever events are delivered while the handler is subscribed, the
\* handler neither panics nor blocks forever: done is closed at most once and
\* no send on errCh stays blocked.
C14_HandlerNeitherPanicsNorHangs ==
    /\ closes <= 1
    /\ ~BlockedForever

\* a SessionError event was delivered by the time the select statement ran,
\* so that select could take the errCh case
ErrorDeliveredBySelect ==
    PositionsOf(SubSeq(delivered, 1, selectAt), SessionError) # {}

\* C15: when a SessionError event has been delivered by the time the select
\* statement runs (SessionIdle delivered as well or not), the result is that
\* error, the first one sent on errCh, and never a (content, nil) result.
C15_SessionErrorWins ==
    (Returned /\ ErrorDeliveredBySelect) =>
        ret = [content |-> "",
               err |-> SessionErrorOf(
                   delivered[Min(PositionsOf(delivered, SessionError))].content)]

====
